---- MODULE Spec2Model ----
(***************************************************************************)
(* Kairah Studio backend (src/main.py): the entitlement and commission     *)
(* ledger behind the HTTP handlers.                                        *)
(*                                                                         *)
(* Representation.                                                         *)
(*  - A Python dict is a function whose DOMAIN is the dict's key set; a    *)
(*    record with a varying set of fields is such a function over strings. *)
(*  - Optional values: None is <<>>, a present value v is <<v>>.           *)
(*  - Money is counted in mills (1/1000 of a currency unit), exactly; the  *)
(*    source uses binary floats.  round(x, 2) is rounding to a multiple of *)
(*    10 mills.                                                            *)
(*  - Timestamps (now_ts) are left out of the records; where the source    *)
(*    builds an identifier from the time, the time is an input.            *)
(*  - data["logs"] is kept as the length of each log list.                 *)
(*  - The JSON file is kept as the document last written to it.            *)
(*  - Every handler is an `async def` run by one event loop: a handler     *)
(*    gives way to other requests only at an await.  The only awaits are   *)
(*    the reading of the request (`await request.json()`, the framework's  *)
(*    parsing of parameters and dependencies), which come before the first *)
(*    access to `data`; from there on the body runs to its end in one      *)
(*    step.  `pending` counts, per kind of request, the requests suspended *)
(*    before their body.                                                   *)
(***************************************************************************)
EXTENDS Integers, Sequences, FiniteSets, TLC

VARIABLES
    data,           \* the module-level dict `data`
    file,           \* the content of DATA_FILE
    ret,            \* the last request handled and its response
    USE_FIREBASE,   \* the module-level flag, fixed at start-up
    pending         \* requests received whose handler body has not run yet

vars == <<data, file, ret, USE_FIREBASE, pending>>

----------------------------------------------------------------------------
(* Python values *)

None == <<>>
Some(v) == <<v>>
Truthy(o) == o # None /\ o[1] # ""
TruthyInt(o) == o # None /\ o[1] # 0

EmptyDict == [k \in {} |-> 0]
Has(d, k) == k \in DOMAIN d
Get(d, k, default) == IF k \in DOMAIN d THEN d[k] ELSE default
Put(d, k, v) == [x \in DOMAIN d \cup {k} |-> IF x = k THEN v ELSE d[x]]

Mills(units) == units * 1000
Cents(c) == c * 10

----------------------------------------------------------------------------
(* Configuration *)

ADMIN_EMAIL == "admin@kairah.local"

FameBoosterUnits == 9
FAME_BOOSTER_PRICE == Mills(FameBoosterUnits)

PLANS ==
    [ Free      |-> [max_seconds |-> Some(6),   video_limit |-> Some(1)],
      Pro       |-> [max_seconds |-> Some(60),  video_limit |-> None],
      Diamond   |-> [max_seconds |-> Some(180), video_limit |-> None],
      Cinematic |-> [max_seconds |-> Some(300), video_limit |-> None],
      Lifetime  |-> [max_seconds |-> None,      video_limit |-> None] ]

VALID_RATIOS == {"16:9", "9:16", "1:1"}

DEFAULT_STATE ==
    [ users      |-> EmptyDict,
      affiliates |-> EmptyDict,
      videos     |-> EmptyDict,
      payments   |-> EmptyDict,
      logs       |-> [video_logs |-> 0, payment_logs |-> 0, affiliate_logs |-> 0] ]

\* The accounts of the Firebase project: an external directory the program
\* only reads (fb_auth.get_user_by_email).
FirebaseAccounts == {"b@k.io"}

----------------------------------------------------------------------------
(* Persistence and utilities.  A world w is [data, file]: the helpers of   *)
(* the source mutate `data` and write the file, here they map a world to   *)
(* the world after the call.                                               *)

\* A Python int used as a dict key or as a value (a payment id that the
\* provider sends as a JSON number) is written "#n"; the str "n" is "n".
PaystackId == 302961
PyInt(n) == "#" \o ToString(n)

\* json.dump writes every dict key as a string: the int key n becomes "n".
JsonKey(k) == IF k = PyInt(PaystackId) THEN ToString(PaystackId) ELSE k

\* The object json.dump writes for the dict t (two keys that become the
\* same string are written as one member here; the inputs never make two
\* different records collide).
JsonObject(t) ==
    IF PyInt(PaystackId) \notin DOMAIN t
    THEN t
    ELSE [k \in {JsonKey(x) : x \in DOMAIN t} |->
            t[CHOOSE x \in DOMAIN t : JsonKey(x) = k]]

\* json.dump(state): users, affiliates and videos are keyed by strings the
\* program builds; payments are keyed by the payment id as received.
json_dump(state) == [state EXCEPT !.payments = JsonObject(@)]

\* json.load: the document's objects as dicts with str keys.
json_load(doc) == doc

save_data(w) == [w EXCEPT !.file = json_dump(w.data)]

log(w, kind) ==
    save_data([w EXCEPT !.data.logs[kind] = @ + 1])

\* The users an affiliate refers, and the ids of their payments.
NReferred == 101
U(i) == "u" \o ToString(i) \o "@k.io"
P(i) == "pay" \o ToString(i)
UserNo(email) ==
    IF \E i \in 1 .. NReferred : email = U(i)
    THEN CHOOSE i \in 1 .. NReferred : email = U(i)
    ELSE 0

\* abs(hash(email)) % 10**8: a function of the email that is not injective
\* (a@k.io and c@k.io collide).
HashMod(email) ==
    CASE email = "a@k.io" -> 11
      [] email = "A@k.io" -> 12
      [] email = "b@k.io" -> 13
      [] email = "c@k.io" -> 11
      [] email = ADMIN_EMAIL -> 14
      [] OTHER -> 100 + UserNo(email)

AffiliateCode(email) == "KA-" \o ToString(HashMod(email))

NewAffiliate(email) ==
    [email |-> email, commission |-> 0, referred |-> <<>>, bonuses |-> 0,
     payouts |-> <<>>]

generate_affiliate_code(w, email) ==
    LET code == AffiliateCode(email)
    IN  [ code |-> code,
          w |-> IF ~Has(w.data.affiliates, code)
                THEN save_data([w EXCEPT !.data.affiliates =
                                    Put(@, code, NewAffiliate(email))])
                ELSE w ]

\* The dict get_user returns, as an Optional.  `shared` tells whether it is
\* the dict stored in data["users"] (a write to it is a write to data) or a
\* fresh merged dict.
get_user(w, fb, email) ==
    IF fb /\ email \in FirebaseAccounts
    THEN [ found |-> TRUE, shared |-> FALSE,
           user |-> LET local == Get(w.data.users, email, EmptyDict)
                    IN  [k \in {"email", "uid"} \cup DOMAIN local |->
                            IF k \in DOMAIN local THEN local[k]
                            ELSE IF k = "email" THEN email ELSE "uid"] ]
    ELSE IF Has(w.data.users, email)
    THEN [ found |-> TRUE, shared |-> TRUE, user |-> w.data.users[email] ]
    ELSE [ found |-> FALSE, shared |-> FALSE, user |-> EmptyDict ]

NewUser(email, display_name, referral_code) ==
    [ email |-> email,
      display_name |-> IF Truthy(display_name) THEN display_name[1] ELSE "",
      plan |-> "Free",
      ref |-> referral_code,
      is_admin |-> FALSE,
      generated_videos |-> 0,
      downloads |-> 0,
      fame_booster_paid |-> FALSE ]

create_user_local(w, email, display_name, referral_code) ==
    IF Has(w.data.users, email) THEN w
    ELSE
      LET w1 == [w EXCEPT !.data.users =
                    Put(@, email, NewUser(email, display_name, referral_code))]
          w2 == IF Truthy(referral_code) /\ Has(w1.data.affiliates, referral_code[1])
                THEN [w1 EXCEPT !.data.affiliates[referral_code[1]].referred =
                          Append(@, email)]
                ELSE w1
      IN  save_data(w2)

UpgradedUser_FamePaid(email, plan) ==
    [ email |-> email, plan |-> plan, is_admin |-> FALSE,
      generated_videos |-> 0, downloads |-> 0, fame_booster_paid |-> TRUE ]

UpgradedUser(email, plan) ==
    [ email |-> email, plan |-> plan, is_admin |-> FALSE,
      generated_videos |-> 0, downloads |-> 0, fame_booster_paid |-> FALSE ]

\* Raises ValueError when plan is not in PLANS: the callers test
\* PlanKnown(plan) before they use the result.
PlanKnown(plan) == plan \in DOMAIN PLANS

upgrade_user_plan_Deferred(w, email, plan) == w

upgrade_user_plan(w, email, plan) ==
    save_data(
      IF Has(w.data.users, email)
      THEN [w EXCEPT !.data.users[email] = Put(@, "plan", plan)]
      ELSE [w EXCEPT !.data.users = Put(@, email, UpgradedUser(email, plan))])

PaymentRecord(payment_id, email, method, amount, plan) ==
    [ payment_id |-> payment_id, email |-> email, method |-> method,
      amount |-> amount, metadata |-> [plan |-> plan], status |-> "completed" ]

record_payment(w, payment_id, email, method, amount, plan) ==
    LET w1 == [w EXCEPT !.data.payments =
                  Put(@, payment_id,
                      PaymentRecord(payment_id, email, method, amount, plan))]
    IN  save_data(log(w1, "payment_logs"))

\* float(Decimal(sale_amount) * Decimal("0.70")), exact for whole cents.
CommissionOf_Thirty(sale_amount) == (sale_amount * 30) \div 100

CommissionOf(sale_amount) == (sale_amount * 70) \div 100

MILESTONE_SALES == 100
BonusUnits == 500
MILESTONE_BONUS == Mills(BonusUnits)

SPECIAL_PLANS == {"Cinematic", "Lifetime"}

\* The nested loop over aff["referred"] and data["payments"].values().
special_sales(d, aff) ==
    Cardinality({ x \in (1 .. Len(aff.referred)) \X DOMAIN d.payments :
                    LET p == d.payments[x[2]]
                    IN  /\ p.email = aff.referred[x[1]]
                        /\ p.status = "completed"
                        /\ p.metadata.plan \in SPECIAL_PLANS })

MilestoneDue(d, aff) ==
    ~Has(aff, "_milestone_awarded") /\ special_sales(d, aff) >= MILESTONE_SALES

AwardMilestone_NoFlag(aff) ==
    [aff EXCEPT !.commission = @ + MILESTONE_BONUS, !.bonuses = @ + MILESTONE_BONUS]

AwardMilestone(aff) ==
    Put([aff EXCEPT !.commission = @ + MILESTONE_BONUS,
                    !.bonuses = @ + MILESTONE_BONUS],
        "_milestone_awarded", TRUE)

\* Returns the world after the call and the value returned.
credit_affiliate_for_sale(w, ref_code, sale_amount, plan_name) ==
    IF ~Has(w.data.affiliates, ref_code)
    THEN [w |-> w, commission |-> 0]
    ELSE
      LET commission == CommissionOf(sale_amount)
          w1 == [w EXCEPT !.data.affiliates[ref_code].commission = @ + commission]
          w2 == log(w1, "affiliate_logs")
          aff == w2.data.affiliates[ref_code]
          w3 == IF MilestoneDue(w2.data, aff)
                THEN log([w2 EXCEPT !.data.affiliates[ref_code] = AwardMilestone(aff)],
                         "affiliate_logs")
                ELSE w2
      IN  [w |-> save_data(w3), commission |-> commission]

----------------------------------------------------------------------------
(* Requests.  Each handler is one action: it reads the world <<data, file>>,*)
(* and leaves the world after the call and the response in ret.            *)

World == [data |-> data, file |-> file]

\* The kinds of request followed while they wait: op and email.
PendingKey(op, email) == op \o ":" \o email

PendingKeys ==
    { PendingKey(op, "b@k.io") :
        op \in {"generate_video", "paystack_webhook", "admin_confirm_wise"} }

RequestEmail(r) ==
    IF Has(r, "req") THEN r.req.user_email ELSE Get(r, "email", "")

\* The body of a handler has run and answered r: one waiting request of
\* r's kind, if any is followed, waits no more.
Served(p, r) ==
    LET key == PendingKey(r.op, RequestEmail(r))
    IN  IF key \in DOMAIN p /\ p[key] > 0
        THEN [p EXCEPT ![key] = @ - 1]
        ELSE p

Respond(w, r) ==
    /\ data' = w.data
    /\ file' = w.file
    /\ ret' = r
    /\ pending' = Served(pending, r)
    /\ UNCHANGED USE_FIREBASE

\* An admin credential: the x-admin-key header is right, or the
\* x-admin-email header names a user.
KeyCred == [key |-> TRUE, email |-> None]
EmailCred(e) == [key |-> FALSE, email |-> Some(e)]
NoCred == [key |-> FALSE, email |-> None]

require_admin(d, cred) ==
    \/ cred.key
    \/ /\ Truthy(cred.email)
       /\ Has(d.users, cred.email[1])
       /\ Get(d.users[cred.email[1]], "is_admin", FALSE)

api_signup(email, display_name, referral_code) ==
    LET w == World
        g == get_user(w, USE_FIREBASE, email)
    IN  IF g.found
        THEN Respond(w, [op |-> "signup", status |-> 400, detail |-> "User already exists",
                         email |-> email, code |-> None])
        ELSE LET w1 == create_user_local(w, email, display_name, referral_code)
                 c == generate_affiliate_code(w1, email)
             IN  Respond(c.w, [op |-> "signup", status |-> 200, detail |-> "User created",
                               email |-> email, code |-> Some(c.code)])

\* affiliate_me: the first affiliate owned by the email, or a new one.
affiliate_me(email) ==
    LET w == World
        own == {c \in DOMAIN w.data.affiliates : w.data.affiliates[c].email = email}
    IN  IF own # {}
        THEN \E c \in own :
               Respond(w, [op |-> "affiliate_me", status |-> 200, detail |-> "found",
                           email |-> email, code |-> Some(c)])
        ELSE LET g == generate_affiliate_code(w, email)
             IN  Respond(g.w, [op |-> "affiliate_me", status |-> 200, detail |-> "generated",
                               email |-> email, code |-> Some(g.code)])

\* email.replace('@', '_')
ReplaceAt(email) ==
    CASE email = "a@k.io" -> "a_k.io"
      [] email = "A@k.io" -> "A_k.io"
      [] email = "b@k.io" -> "b_k.io"
      [] email = "c@k.io" -> "c_k.io"
      [] email = ADMIN_EMAIL -> "admin_kairah.local"
      [] OTHER -> email

VideoId_NoCount(email, videos, now) ==
    ReplaceAt(email) \o "_" \o ToString(now)

\* f"{email.replace('@','_')}_{len(data['videos'])+1}_{now_ts()}"
VideoId(email, videos, now) ==
    ReplaceAt(email) \o "_" \o ToString(Cardinality(DOMAIN videos) + 1)
                     \o "_" \o ToString(now)

MockUrl(video_id) == "https://cdn.kairahstudio.com/mock_videos/" \o video_id \o ".mp4"

DefaultLength(plan) ==
    CASE plan = "Free" -> 6
      [] plan = "Pro" -> 30
      [] plan = "Diamond" -> 90
      [] plan = "Cinematic" -> 180
      [] OTHER -> 60

PREMIUM_PLANS_WithPro == {"Pro", "Diamond", "Cinematic", "Lifetime"}

PREMIUM_PLANS == {"Diamond", "Cinematic", "Lifetime"}

TooLong_OffByOne(max_seconds, requested_seconds) ==
    max_seconds # None /\ requested_seconds > max_seconds[1] + 1

TooLong(max_seconds, requested_seconds) ==
    max_seconds # None /\ requested_seconds > max_seconds[1]

FreeQuotaUsed_OffByOne(plan, user) ==
    plan = "Free" /\ Get(user, "generated_videos", 0) > 1

FreeQuotaUsed(plan, user) ==
    plan = "Free" /\ Get(user, "generated_videos", 0) >= 1

\* req: [user_email, prompt, aspect_ratio, requested_seconds, fame_booster,
\*       template_id, music_id].  VIDEO_API_URL is unset: the mock URL is kept.
NeedsFamePayment_Never(req, user) == FALSE

\* req.fame_booster and not user.get("fame_booster_paid")
NeedsFamePayment(req, user) ==
    req.fame_booster /\ ~Get(user, "fame_booster_paid", FALSE)

CountVideo_Twice(u) ==
    Put(u, "generated_videos", Get(u, "generated_videos", 0) + 2)

\* data["users"][email]["generated_videos"] = ....get("generated_videos", 0) + 1
CountVideo(u) ==
    Put(u, "generated_videos", Get(u, "generated_videos", 0) + 1)

api_generate_video(req, now) ==
    LET w == World
        g == get_user(w, USE_FIREBASE, req.user_email)
        user == g.user
        plan == Get(user, "plan", "Free")
        plan_info == Get(PLANS, plan, PLANS["Free"])
        max_seconds == plan_info.max_seconds
        length == IF TruthyInt(req.requested_seconds)
                  THEN req.requested_seconds[1]
                  ELSE DefaultLength(plan)
        R(status, detail) ==
            [op |-> "generate_video", status |-> status, detail |-> detail,
             req |-> req, video_id |-> None]
    IN  IF ~g.found
        THEN Respond(w, R(401, "User not found"))
        ELSE IF TruthyInt(req.requested_seconds)
                /\ TooLong(max_seconds, req.requested_seconds[1])
        THEN Respond(w, R(400, "max seconds"))
        ELSE IF req.aspect_ratio \notin VALID_RATIOS
        THEN Respond(w, R(400, "Invalid aspect ratio"))
        ELSE IF (Truthy(req.template_id) \/ Truthy(req.music_id))
                /\ plan \notin PREMIUM_PLANS
        THEN Respond(w, R(403, "Premium templates/music"))
        ELSE IF NeedsFamePayment(req, user)
        THEN Respond(w, Put(R(200, "require_payment"), "price", FAME_BOOSTER_PRICE))
        ELSE IF FreeQuotaUsed(plan, user)
        THEN Respond(w, R(403, "Free plan allows only 1 generated video"))
        ELSE
          LET video_id == VideoId(req.user_email, w.data.videos, now)
              video == [video_id |-> video_id, email |-> req.user_email,
                        prompt |-> req.prompt, url |-> MockUrl(video_id),
                        length |-> length, aspect_ratio |-> req.aspect_ratio,
                        fame_booster |-> req.fame_booster]
              w1 == [w EXCEPT !.data.videos = Put(@, video_id, video)]
              w2 == IF Has(w1.data.users, req.user_email) THEN w1
                    ELSE [w1 EXCEPT !.data.users =
                            Put(@, req.user_email,
                                [email |-> req.user_email, generated_videos |-> 0])]
              u == w2.data.users[req.user_email]
              w3 == [w2 EXCEPT !.data.users[req.user_email] = CountVideo(u)]
          IN  Respond(save_data(log(w3, "video_logs")),
                      [R(200, "Video generated") EXCEPT !.video_id = Some(video_id)])

\* A write to the dict get_user returned reaches data only when that dict
\* is the stored one.
CountDownload(w, g, email) ==
    IF g.shared
    THEN [w EXCEPT !.data.users[email] =
            Put(@, "downloads", Get(g.user, "downloads", 0) + 1)]
    ELSE w

api_download(video_id, email) ==
    LET w == World
        g == get_user(w, USE_FIREBASE, email)
        R(status, detail) ==
            [op |-> "download", status |-> status, detail |-> detail,
             email |-> email, video_id |-> video_id]
    IN  IF ~Has(w.data.videos, video_id)
        THEN Respond(w, R(404, "Video not found"))
        ELSE IF ~g.found
        THEN Respond(w, R(401, "User required"))
        ELSE IF Has(g.user, "plan") /\ g.user.plan = "Free"
        THEN IF Get(g.user, "downloads", 0) >= 1
             THEN Respond(w, R(403, "Free plan allows only one download"))
             ELSE Respond(save_data(CountDownload(w, g, email)),
                          R(200, "Download granted"))
        ELSE Respond(w, R(200, "Download granted"))

\* The response of a payment confirmation: `credited` is the referral code
\* credit_affiliate_for_sale was called with (None: it was not called) and
\* `commission` the value it returned.
Confirmed(op, status, detail, payment_id, email, amount, plan, credited, commission) ==
    [op |-> op, status |-> status, detail |-> detail, payment_id |-> payment_id,
     email |-> email, amount |-> amount, plan |-> plan,
     credited |-> credited, commission |-> commission]

StoredRef(d, email) ==
    IF Has(d.users, email) THEN Get(d.users[email], "ref", None) ELSE None

\* The body shared by the Paystack and PayPal webhooks once email, amount
\* and plan are parsed: upgrade, record, credit the stored ref.
WebhookConfirm(op, method, w, payment_id, email, amount, plan) ==
    IF ~PlanKnown(plan)
    THEN Respond(w, Confirmed(op, 400, "Invalid payload", payment_id, email,
                              amount, plan, None, 0))
    ELSE
      LET w1 == upgrade_user_plan(w, email, plan)
          w2 == record_payment(w1, payment_id, email, method, amount, plan)
          ref == StoredRef(w2.data, email)
      IN  IF Truthy(ref)
          THEN LET c == credit_affiliate_for_sale(w2, ref[1], amount, plan)
               IN  Respond(c.w, Confirmed(op, 200, "ok", payment_id, email,
                                          amount, plan, ref, c.commission))
          ELSE Respond(w2, Confirmed(op, 200, "ok", payment_id, email,
                                     amount, plan, None, 0))

\* payload: [success, email, amount, plan, id]; amount is in minor units
\* (divided by 100.0), email, amount, plan and id are Optional.
paystack_webhook(payload, now) ==
    LET amount == IF TruthyInt(payload.amount) THEN Cents(payload.amount[1]) ELSE 0
        plan == IF Truthy(payload.plan) THEN payload.plan[1] ELSE "Pro"
        payment_id == IF payload.id # None THEN payload.id[1]
                      ELSE "paystack_" \o ToString(now)
    IN  IF payload.success /\ Truthy(payload.email)
        THEN WebhookConfirm("paystack_webhook", "paystack", World, payment_id,
                            payload.email[1], amount, plan)
        ELSE Respond(World, [op |-> "paystack_webhook", status |-> 200,
                             detail |-> "ignored"])

\* resource: [email, amount, custom_id, invoice_id, id]; amount is the
\* decimal value in mills; all fields are Optional.
paypal_webhook(resource, now) ==
    LET amount == IF TruthyInt(resource.amount) THEN resource.amount[1] ELSE 0
        plan == IF Truthy(resource.custom_id) THEN resource.custom_id[1]
                ELSE IF Truthy(resource.invoice_id) THEN resource.invoice_id[1]
                ELSE "Pro"
        payment_id == IF resource.id # None THEN resource.id[1]
                      ELSE "paypal_" \o ToString(now)
    IN  IF Truthy(resource.email)
        THEN WebhookConfirm("paypal_webhook", "paypal", World, payment_id,
                            resource.email[1], amount, plan)
        ELSE Respond(World, [op |-> "paypal_webhook", status |-> 200,
                             detail |-> "ignored"])

mpesa_webhook ==
    Respond(World, [op |-> "mpesa_webhook", status |-> 200, detail |-> "ok"])

Unauthorized(op) ==
    [op |-> op, status |-> 401, detail |-> "Admin credentials required"]

ChosenRef_StoredFirst(ref_code, stored) ==
    IF Truthy(stored) THEN stored ELSE ref_code

\* ref_code or data["users"].get(email, {}).get("ref")
ChosenRef(ref_code, stored) ==
    IF Truthy(ref_code) THEN ref_code ELSE stored

admin_confirm_wise(payment_id, email, amount, plan, ref_code, cred) ==
    LET w == World
        op == "admin_confirm_wise"
        \* The response, with the ref_code argument of the request.
        R(status, detail, credited, commission) ==
            Put(Confirmed(op, status, detail, payment_id, email, amount, plan,
                          credited, commission),
                "ref_code", ref_code)
    IN  IF ~require_admin(w.data, cred)
        THEN Respond(w, Unauthorized(op))
        ELSE
          LET w1 == record_payment(w, payment_id, email, "wise", amount, plan)
          IN  IF ~PlanKnown(plan)
              THEN Respond(w1, R(500, "Unknown plan", None, 0))
              ELSE
                LET w2 == upgrade_user_plan(w1, email, plan)
                    ref == ChosenRef(ref_code, StoredRef(w2.data, email))
                IN  IF Truthy(ref)
                    THEN LET c == credit_affiliate_for_sale(w2, ref[1], amount, plan)
                         IN  Respond(save_data(c.w), R(200, "ok", ref, c.commission))
                    ELSE Respond(save_data(w2), R(200, "ok", None, 0))

admin_create_admin(email, cred) ==
    LET w == World
        op == "admin_create_admin"
    IN  IF ~require_admin(w.data, cred)
        THEN Respond(w, Unauthorized(op))
        ELSE
          LET w1 == IF Has(w.data.users, email) THEN w
                    ELSE create_user_local(w, email, None, None)
              w2 == [w1 EXCEPT !.data.users[email] = Put(@, "is_admin", TRUE)]
          IN  Respond(save_data(w2),
                      [op |-> op, status |-> 200, detail |-> "ok", email |-> email])

admin_ban_user(email, cred) ==
    LET w == World
        op == "admin_ban_user"
    IN  IF ~require_admin(w.data, cred)
        THEN Respond(w, Unauthorized(op))
        ELSE IF Has(w.data.users, email)
        THEN Respond(save_data([w EXCEPT !.data.users[email] = Put(@, "banned", TRUE)]),
                     [op |-> op, status |-> 200, detail |-> "ok", email |-> email])
        ELSE Respond(w, [op |-> op, status |-> 404, detail |-> "User not found",
                         email |-> email])

\* round(x, 2) of a binary float: the nearest multiple of 10 mills; when x
\* is half-way in decimal, the float lies on either side of it.
Round2(x) ==
    LET down == (x \div 10) * 10
    IN  IF x % 10 < 5 THEN {down}
        ELSE IF x % 10 > 5 THEN {down + 10}
        ELSE {down, down + 10}

Insufficient_OrEqual(amount, available) == amount >= available

Insufficient(amount, available) == amount > available

admin_affiliate_payout(ref_code, amount, cred) ==
    LET w == World
        op == "admin_affiliate_payout"
        R(status, detail) ==
            [op |-> op, status |-> status, detail |-> detail,
             ref_code |-> ref_code, amount |-> amount]
    IN  IF ~require_admin(w.data, cred)
        THEN Respond(w, Unauthorized(op))
        ELSE IF ~Has(w.data.affiliates, ref_code)
        THEN Respond(w, R(404, "Affiliate not found"))
        ELSE
          LET aff == w.data.affiliates[ref_code]
              available == Get(aff, "commission", 0)
          IN  IF Insufficient(amount, available)
              THEN Respond(w, R(400, "Insufficient commission"))
              ELSE \E remaining \in Round2(available - amount) :
                     LET w1 == [w EXCEPT !.data.affiliates[ref_code] =
                                  [aff EXCEPT !.commission = remaining,
                                              !.payouts = Append(@, [amount |-> amount])]]
                     IN  Respond(save_data(log(w1, "affiliate_logs")), R(200, "ok"))

----------------------------------------------------------------------------
(* Start-up: no data file yet, so load_data returns DEFAULT_STATE; the     *)
(* admin user is seeded and the state is saved.                            *)

AdminUser ==
    [ email |-> ADMIN_EMAIL, display_name |-> "Kairah Admin", plan |-> "Lifetime",
      ref |-> None, is_admin |-> TRUE, generated_videos |-> 0, downloads |-> 0,
      fame_booster_paid |-> FALSE ]

load_data == DEFAULT_STATE

\* Start-up on an existing DATA_FILE: load it and seed the admin, saving
\* only when the admin was missing.
Restart ==
    LET loaded == json_load(file)
        seeded == Has(loaded.users, ADMIN_EMAIL)
    IN  /\ data' = IF seeded THEN loaded
                   ELSE [loaded EXCEPT !.users = Put(@, ADMIN_EMAIL, AdminUser)]
        /\ file' = IF seeded THEN file ELSE json_dump(data')
        /\ ret' = [op |-> "startup", status |-> 200, detail |-> "ok"]
        /\ pending' = [k \in PendingKeys |-> 0]
        /\ UNCHANGED USE_FIREBASE

Init ==
    /\ data = [load_data EXCEPT !.users = Put(@, ADMIN_EMAIL, AdminUser)]
    /\ file = json_dump(data)
    /\ ret = [op |-> "startup", status |-> 200, detail |-> "ok"]
    /\ USE_FIREBASE \in BOOLEAN
    /\ pending = [k \in PendingKeys |-> 0]

----------------------------------------------------------------------------
(* Bounds and request sets *)

MaxPaymentLogs == 2     \* payment confirmations recorded
MaxPayouts == 1         \* payout records per affiliate
MaxVideos == 2          \* videos generated
MaxTime == 1            \* values of now_ts()

Times == 1 .. MaxTime

CodeA == AffiliateCode("a@k.io")
UnknownCode == "KA-0"

VideoRequest(email, ratio, seconds, fame, template, music) ==
    [ user_email |-> email, prompt |-> "p", aspect_ratio |-> ratio,
      requested_seconds |-> seconds, fame_booster |-> fame,
      template_id |-> template, music_id |-> music ]

PlainRequest(email) == VideoRequest(email, "16:9", None, FALSE, None, None)

PaystackPayload(email, amount, plan, id) ==
    [success |-> TRUE, email |-> email, amount |-> amount, plan |-> plan, id |-> id]

PaypalResource(email, amount, plan, id) ==
    [email |-> email, amount |-> amount, custom_id |-> plan, invoice_id |-> None,
     id |-> id]

\* The caps bound the growth of a run; a request that adds nothing is
\* never cut off by them.
PaymentsCapped == data'.logs.payment_logs <= MaxPaymentLogs
VideosCapped == Cardinality(DOMAIN data'.videos) <= MaxVideos
PayoutsCapped ==
    \A c \in DOMAIN data'.affiliates : Len(data'.affiliates[c].payouts) <= MaxPayouts

----------------------------------------------------------------------------
(* The whole service: every mutating handler, on one or two requests each  *)

Signup ==
    \E email \in {"a@k.io", "A@k.io", "b@k.io"}, ref \in {None, Some(CodeA)} :
        api_signup(email, None, ref)

AffiliateMe == affiliate_me("c@k.io")

GenerateVideo ==
    /\ \E now \in Times : api_generate_video(PlainRequest("a@k.io"), now)
    /\ VideosCapped

Download ==
    \E video_id \in DOMAIN data.videos : api_download(video_id, "a@k.io")

Paystack ==
    /\ \E now \in Times :
          paystack_webhook(PaystackPayload(Some("b@k.io"), Some(1), None, Some("p1")), now)
    /\ PaymentsCapped

Paypal ==
    /\ \E now \in Times :
          paypal_webhook(PaypalResource(Some("b@k.io"), Some(Mills(100)), None, None), now)
    /\ PaymentsCapped

Mpesa == mpesa_webhook

ConfirmWise ==
    /\ admin_confirm_wise("p1", "b@k.io", Mills(100), "Cinematic", None, KeyCred)
    /\ PaymentsCapped

CreateAdmin == admin_create_admin("b@k.io", KeyCred)

BanUser == admin_ban_user("a@k.io", EmailCred("b@k.io"))

Payout ==
    /\ admin_affiliate_payout(CodeA, Mills(50), KeyCred)
    /\ PayoutsCapped

Next ==
    \/ Signup
    \/ AffiliateMe
    \/ GenerateVideo
    \/ Download
    \/ Paystack
    \/ Paypal
    \/ Mpesa
    \/ ConfirmWise
    \/ CreateAdmin
    \/ BanUser
    \/ Payout

Spec == Init /\ [][Next]_vars

----------------------------------------------------------------------------
(* Generation and download: requests of every kind, under every plan       *)

PlanNames == {"Free", "Pro", "Diamond", "Cinematic", "Lifetime"}

VideoUsers == {"a@k.io", "b@k.io"}

\* b@k.io asks for everything; a@k.io, who stays on the plan signup gave,
\* asks for the default and for one second too many.
VideoRequests ==
    { PlainRequest("a@k.io"),
      VideoRequest("a@k.io", "16:9", Some(7), FALSE, None, None),
      PlainRequest("b@k.io"),
      VideoRequest("b@k.io", "4:3", None, FALSE, None, None),
      VideoRequest("b@k.io", "1:1", None, FALSE, Some("t1"), None),
      VideoRequest("b@k.io", "9:16", None, TRUE, None, None),
      VideoRequest("b@k.io", "4:3", None, TRUE, None, Some("m1")) }
    \cup { VideoRequest("b@k.io", "16:9", Some(s), FALSE, None, None) :
             s \in {6, 7, 61, 181, 301} }

VSignup == \E email \in VideoUsers : api_signup(email, None, None)

VPlan ==
    /\ \E plan \in PlanNames, now \in Times :
          paystack_webhook(PaystackPayload(Some("b@k.io"), Some(1900), Some(plan), Some("p1")),
                           now)
    /\ PaymentsCapped

VGenerate ==
    /\ \E req \in VideoRequests, now \in Times : api_generate_video(req, now)
    /\ VideosCapped

VDownload ==
    \E video_id \in DOMAIN data.videos \cup {"none"}, email \in VideoUsers :
        api_download(video_id, email)

NextVideo == VSignup \/ VPlan \/ VGenerate \/ VDownload

SpecVideo == Init /\ [][NextVideo]_vars

----------------------------------------------------------------------------
(* Payments, commission and payouts: b@k.io pays, a@k.io is the affiliate  *)

LSignup ==
    \/ api_signup("a@k.io", None, None)
    \/ \E ref \in {None, Some(CodeA)} : api_signup("b@k.io", None, ref)

LWise ==
    /\ \E amount \in {-Mills(100), Cents(1), Mills(100)},
          ref_code \in {None, Some(CodeA), Some(UnknownCode)},
          cred \in {KeyCred, NoCred} :
          admin_confirm_wise("p1", "b@k.io", amount, "Pro", ref_code, cred)
    /\ PaymentsCapped

LPaystack ==
    /\ \E now \in Times :
          paystack_webhook(PaystackPayload(Some("b@k.io"), Some(1999), None, Some("p2")),
                           now)
    /\ PaymentsCapped

LPayout ==
    /\ \E ref_code \in {CodeA, UnknownCode}, amount \in {0, Cents(1399), Mills(50)},
          cred \in {KeyCred, NoCred} :
          admin_affiliate_payout(ref_code, amount, cred)
    /\ PayoutsCapped

NextLedger == LSignup \/ LWise \/ LPaystack \/ LPayout

SpecLedger == Init /\ [][NextLedger]_vars

----------------------------------------------------------------------------
(* The road to the milestone: a@k.io refers u1, u2, ...; each signs up     *)
(* with a's code and pays for Cinematic by bank transfer before the next   *)
(* one signs up.  The admin confirms a payment with no referral code (the  *)
(* payer's stored ref is credited) or, at the first payments and from the  *)
(* milestone on, with a code no affiliate has.                             *)

FreeChoice == 2

Registered == Cardinality({i \in 1 .. NReferred : Has(data.users, U(i))})
Paid == Cardinality({i \in 1 .. NReferred : Has(data.payments, P(i))})

MSignup == api_signup("a@k.io", None, None)

MRefer ==
    /\ Has(data.users, "a@k.io")
    /\ Registered < NReferred
    /\ Registered = Paid
    /\ api_signup(U(Registered + 1), None, Some(CodeA))

MPay ==
    /\ Paid < Registered
    /\ \E plan \in (IF Paid = 0 THEN {"Pro", "Cinematic"} ELSE {"Cinematic"}),
          ref_code \in (IF Paid < FreeChoice \/ Paid + 1 >= MILESTONE_SALES
                        THEN {None, Some(UnknownCode)}
                        ELSE {Some(UnknownCode)}) :
          admin_confirm_wise(P(Paid + 1), U(Paid + 1), Mills(100), plan, ref_code, KeyCred)

MPayout ==
    /\ admin_affiliate_payout(CodeA, Mills(50), KeyCred)
    /\ PayoutsCapped

NextMilestone == MSignup \/ MRefer \/ MPay \/ MPayout

SpecMilestone == Init /\ [][NextMilestone]_vars

----------------------------------------------------------------------------
(* Signup and affiliate accounts: a@k.io and c@k.io, whose codes collide,  *)
(* and b@k.io, whose payment earns a commission for the code it names.     *)

SSignup ==
    \E email \in {"a@k.io", "b@k.io", "c@k.io"}, ref \in {None, Some(CodeA)} :
        api_signup(email, None, ref)

SAffiliateMe == \E email \in {"a@k.io", "c@k.io"} : affiliate_me(email)

SWise ==
    /\ admin_confirm_wise("p1", "b@k.io", Mills(100), "Pro", None, KeyCred)
    /\ PaymentsCapped

NextSignup == SSignup \/ SAffiliateMe \/ SWise

SpecSignup == Init /\ [][NextSignup]_vars

----------------------------------------------------------------------------
(* Payment confirmation on every path: b@k.io pays, for a plan of the      *)
(* catalogue or for "Gold", which is not one; a@k.io and u1@k.io are       *)
(* affiliates, and the admin names u1's code, an unknown code or none.     *)

CodeU1 == AffiliateCode(U(1))

CSignup ==
    \/ \E email \in {"a@k.io", U(1)} : api_signup(email, None, None)
    \/ \E ref \in {None, Some(CodeA)} : api_signup("b@k.io", None, ref)

CWise ==
    /\ \E plan \in {"Pro", "Gold"},
          ref_code \in {None, Some(CodeU1), Some(UnknownCode)} :
          admin_confirm_wise("p1", "b@k.io", Mills(100), plan, ref_code, KeyCred)
    /\ PaymentsCapped

CPaystack ==
    /\ \E plan \in {None, Some("Gold")}, now \in Times :
          paystack_webhook(PaystackPayload(Some("b@k.io"), Some(2000), plan, Some("p2")),
                           now)
    /\ PaymentsCapped

CPaypal ==
    /\ \E plan \in {Some("Diamond"), Some("Gold")}, now \in Times :
          paypal_webhook(PaypalResource(Some("b@k.io"), Some(Mills(30)), plan, Some("p3")),
                         now)
    /\ PaymentsCapped

NextConfirm == CSignup \/ CWise \/ CPaystack \/ CPaypal

SpecConfirm == Init /\ [][NextConfirm]_vars

----------------------------------------------------------------------------
(* Persistence: requests that write each collection, with a payment whose  *)
(* id Paystack sends as a number, and restarts of the process.             *)

PSignup ==
    \E email \in {"a@k.io", "b@k.io"}, ref \in {None, Some(CodeA)} :
        api_signup(email, None, ref)

PPaystack ==
    /\ \E id \in {"p2", PyInt(PaystackId)}, now \in Times :
          paystack_webhook(PaystackPayload(Some("b@k.io"), Some(2000), None, Some(id)), now)
    /\ PaymentsCapped

PGenerate ==
    /\ \E now \in Times : api_generate_video(PlainRequest("b@k.io"), now)
    /\ VideosCapped

PDownload ==
    \E video_id \in DOMAIN data.videos : api_download(video_id, "b@k.io")

PBanUser == admin_ban_user("a@k.io", KeyCred)

PPayout ==
    /\ admin_affiliate_payout(CodeA, Mills(10), KeyCred)
    /\ PayoutsCapped

NextPersist ==
    PSignup \/ PPaystack \/ PGenerate \/ PDownload \/ PBanUser \/ PPayout \/ Restart

SpecPersist == Init /\ [][NextPersist]_vars

----------------------------------------------------------------------------
(* Concurrent requests: requests of b@k.io arrive and wait, several at a   *)
(* time, and the event loop runs the body of any of them.                  *)

MaxPending == 2

KSignup ==
    \/ api_signup("a@k.io", None, None)
    \/ api_signup("b@k.io", None, Some(CodeA))

\* A request is received; its coroutine is suspended before its body.
KArrive ==
    \E key \in PendingKeys :
        /\ pending[key] < MaxPending
        /\ pending' = [pending EXCEPT ![key] = @ + 1]
        /\ UNCHANGED <<data, file, ret, USE_FIREBASE>>

KGenerate ==
    /\ pending[PendingKey("generate_video", "b@k.io")] > 0
    /\ \E now \in Times : api_generate_video(PlainRequest("b@k.io"), now)
    /\ VideosCapped

KPaystack ==
    /\ pending[PendingKey("paystack_webhook", "b@k.io")] > 0
    /\ \E plan \in {"Free", "Cinematic"}, now \in Times :
          paystack_webhook(PaystackPayload(Some("b@k.io"), Some(2000), Some(plan), Some("p2")),
                           now)
    /\ PaymentsCapped

KWise ==
    /\ pending[PendingKey("admin_confirm_wise", "b@k.io")] > 0
    /\ \E plan \in {"Free", "Lifetime"} :
          admin_confirm_wise("p1", "b@k.io", Mills(100), plan, None, KeyCred)
    /\ PaymentsCapped

NextConcurrent == KSignup \/ KArrive \/ KGenerate \/ KPaystack \/ KWise

SpecConcurrent == Init /\ [][NextConcurrent]_vars

----------------------------------------------------------------------------
(* The fame booster: b@k.io pays its price by every path and asks for it,  *)
(* among the other operations of the service and a restart                 *)

FameRequest(email) == VideoRequest(email, "16:9", None, TRUE, None, None)

FSignup ==
    \/ api_signup("a@k.io", None, None)
    \/ api_signup("b@k.io", None, Some(CodeA))

FWise ==
    /\ \E plan \in {"Free", "Lifetime"} :
          admin_confirm_wise("p1", "b@k.io", FAME_BOOSTER_PRICE, plan, None, KeyCred)
    /\ PaymentsCapped

FPaystack ==
    /\ \E now \in Times :
          paystack_webhook(PaystackPayload(Some("b@k.io"), Some(FameBoosterUnits * 100),
                                           Some("Diamond"), Some("p2")), now)
    /\ PaymentsCapped

FPaypal ==
    /\ \E now \in Times :
          paypal_webhook(PaypalResource(Some("b@k.io"), Some(FAME_BOOSTER_PRICE),
                                        Some("Pro"), Some("p3")), now)
    /\ PaymentsCapped

FMpesa == mpesa_webhook

FGenerate ==
    /\ \E req \in {PlainRequest("b@k.io"), FameRequest("b@k.io"), FameRequest("a@k.io")},
          now \in Times :
          api_generate_video(req, now)
    /\ VideosCapped

FDownload ==
    \E video_id \in DOMAIN data.videos : api_download(video_id, "b@k.io")

FPayout ==
    /\ admin_affiliate_payout(CodeA, Cents(1), KeyCred)
    /\ PayoutsCapped

FCreateAdmin == admin_create_admin("b@k.io", KeyCred)

FBanUser == admin_ban_user("b@k.io", KeyCred)

NextFame ==
    \/ FSignup
    \/ FWise
    \/ FPaystack
    \/ FPaypal
    \/ FMpesa
    \/ FGenerate
    \/ FDownload
    \/ FPayout
    \/ FCreateAdmin
    \/ FBanUser
    \/ Restart

SpecFame == Init /\ [][NextFame]_vars

----------------------------------------------------------------------------
(* Claims about generation and download (SpecVideo)                        *)

OwnedVideos(d, email) == {v \in DOMAIN d.videos : d.videos[v].email = email}

NewVideos == DOMAIN data'.videos \ DOMAIN data.videos

\* The request passes every check that comes before the Free quota check.
PassesEarlierChecks(req, user) ==
    /\ ~(req.requested_seconds # None /\ req.requested_seconds[1] > 6)
    /\ req.aspect_ratio \in {"16:9", "9:16", "1:1"}
    /\ req.template_id = None /\ req.music_id = None
    /\ ~(req.fame_booster /\ ~Get(user, "fame_booster_paid", FALSE))

\* C2 as stated: while the plan is Free, the first valid request of a user
\* creates a video and every later request of that user fails with a quota
\* error (the video quota or, as the length limit is a quota too, that one).
C2_EveryLaterCallRefused ==
    [][ ret'.op = "generate_video" =>
          LET req == ret'.req
              g == get_user(World, USE_FIREBASE, req.user_email)
              made == Cardinality(OwnedVideos(data, req.user_email))
          IN  (g.found /\ Get(g.user, "plan", "Free") = "Free") =>
                /\ made = 0 /\ PassesEarlierChecks(req, g.user) =>
                     ret'.status = 200 /\ Cardinality(NewVideos) = 1
                /\ made >= 1 =>
                     /\ NewVideos = {}
                     /\ ret'.detail \in {"Free plan allows only 1 generated video",
                                         "max seconds"}
      ]_vars

\* C2, amended: a user on the Free plan gets at most one video: while the
\* plan is Free, a request by a user who owns no video and passes the other
\* checks creates one, and no request by a user who owns a video creates
\* another; such a request is answered 403, quota exceeded, when it passes
\* the checks made before the quota check (length, aspect ratio, premium
\* template or music, unpaid fame booster).
C2_FreeQuota ==
    [][ ret'.op = "generate_video" =>
          LET req == ret'.req
              g == get_user(World, USE_FIREBASE, req.user_email)
              made == Cardinality(OwnedVideos(data, req.user_email))
              valid == PassesEarlierChecks(req, g.user)
          IN  (g.found /\ Get(g.user, "plan", "Free") = "Free") =>
                /\ made = 0 /\ valid =>
                     /\ ret'.status = 200
                     /\ Cardinality(NewVideos) = 1
                     /\ \A v \in NewVideos : data'.videos[v].email = req.user_email
                /\ made >= 1 =>
                     /\ NewVideos = {}
                     /\ valid => /\ ret'.status = 403
                                 /\ ret'.detail = "Free plan allows only 1 generated video"
      ]_vars

C2_Witness ==
    /\ ret.op = "generate_video"
    /\ ret.status = 403
    /\ ret.detail = "Free plan allows only 1 generated video"
    /\ Cardinality(OwnedVideos(data, ret.req.user_email)) = 1
    /\ Has(data.users, ret.req.user_email)
    /\ Get(data.users[ret.req.user_email], "plan", "none") = "Free"

\* C3: a download of an existing video by a Free user is granted once, and
\* sets the downloads counter to 1; later ones are answered 403 while the
\* plan is Free; on any other plan it is granted and the user is unchanged.
C3_DownloadQuota ==
    [][ ( /\ ret'.op = "download"
          /\ Has(data.videos, ret'.video_id)
          /\ Has(data.users, ret'.email) ) =>
          LET before == data.users[ret'.email]
              after == data'.users[ret'.email]
          IN  IF Has(before, "plan") /\ before.plan = "Free"
              THEN IF Get(before, "downloads", 0) >= 1
                   THEN ret'.status = 403 /\ data' = data
                   ELSE ret'.status = 200 /\ Get(after, "downloads", 0) = 1
              ELSE ret'.status = 200 /\ after = before
      ]_vars

\* The plan table of the specification: the longest clip of each plan.
MaxClipLength(plan) ==
    CASE plan = "Free" -> Some(6)
      [] plan = "Pro" -> Some(60)
      [] plan = "Diamond" -> Some(180)
      [] plan = "Cinematic" -> Some(300)
      [] plan = "Lifetime" -> None

\* C4: on a plan with a longest clip, a request for more seconds is
\* answered 400 and creates nothing, and every video created, requested or
\* default length, is no longer than the longest clip of the plan its
\* owner holds at that moment; on Lifetime no request is refused for its
\* length.
C4_LengthWithinPlan ==
    [][ ret'.op = "generate_video" =>
          LET req == ret'.req
              g == get_user(World, USE_FIREBASE, req.user_email)
              max == MaxClipLength(Get(g.user, "plan", "Free"))
          IN  g.found =>
                /\ (max # None /\ req.requested_seconds # None
                      /\ req.requested_seconds[1] > max[1]) =>
                     ret'.status = 400 /\ NewVideos = {}
                /\ \A v \in NewVideos :
                     max # None => data'.videos[v].length <= max[1]
                /\ max = None => ret'.detail # "max seconds"
      ]_vars

C4_Witness ==
    /\ ret.op = "generate_video"
    /\ ret.status = 400
    /\ ret.detail = "max seconds"
    /\ ret.req.requested_seconds = Some(61)
    /\ \E v \in DOMAIN data.videos : data.videos[v].length = 301

----------------------------------------------------------------------------
(* Claims about payments, commission, payouts and signup                   *)

ConfirmOps == {"admin_confirm_wise", "paystack_webhook", "paypal_webhook"}

IsConfirmation(r) == r.op \in ConfirmOps /\ Has(r, "payment_id")

\* C1: a payment confirmation repeated with the same payment id (the
\* same request, answered 200 both times) is a no-op: the payment records,
\* the users and the affiliates' balances stay as the first call left them.
C1_ConfirmIdempotent ==
    [][ ( /\ IsConfirmation(ret) /\ IsConfirmation(ret')
          /\ ret.status = 200 /\ ret'.status = 200
          /\ ret'.op = ret.op
          /\ ret'.payment_id = ret.payment_id
          /\ ret'.email = ret.email
          /\ ret'.amount = ret.amount /\ ret'.amount >= 0
          /\ ret'.plan = ret.plan
          /\ ret'.credited = ret.credited
          /\ Has(data.payments, ret'.payment_id) ) =>
          /\ data'.payments = data.payments
          /\ data'.users = data.users
          /\ data'.affiliates = data.affiliates
      ]_vars

IsPayout(r) == r.op = "admin_affiliate_payout" /\ Has(r, "ref_code")

C9_BalanceNonNegative ==
    \A c \in DOMAIN data.affiliates : data.affiliates[c].commission >= 0

\* The email in lower case.
Lower(email) == IF email = "A@k.io" THEN "a@k.io" ELSE email

\* C10: a signup whose email equals, letter case aside, the email of an
\* existing user is answered "already exists" and changes nothing.
C10_SignupCaseInsensitive ==
    [][ ( /\ ret'.op = "signup"
          /\ \E e \in DOMAIN data.users : Lower(e) = Lower(ret'.email) ) =>
          ret'.status = 400 /\ data' = data
      ]_vars

----------------------------------------------------------------------------
(* Claims about the milestone bonus                                        *)

Awarded(aff) == Has(aff, "_milestone_awarded")

\* A confirmation that called credit_affiliate_for_sale with code c.
Accrued(r, c) ==
    IsConfirmation(r) /\ r.status = 200 /\ r.credited = Some(c)

\* C5 as stated: an accrual on a code that has an affiliate account adds
\* exactly 70% of the sale amount to that account's balance and returns
\* it; on a code with no account it returns 0 and changes no affiliate.
C5_ExactSeventy ==
    [][ \A c \in {UnknownCode} \union DOMAIN data.affiliates :
          Accrued(ret', c) =>
            IF Has(data.affiliates, c)
            THEN /\ ret'.commission = (ret'.amount * 70) \div 100
                 /\ data'.affiliates[c].commission =
                      data.affiliates[c].commission + ret'.commission
            ELSE /\ ret'.commission = 0
                 /\ data'.affiliates = data.affiliates
      ]_vars

\* C5, amended: an accrual on a code that has an affiliate account returns
\* 70% of the sale amount and adds it to the balance, together with the
\* 500 milestone bonus when this accrual is the one that awards the
\* milestone; on a code with no account it returns 0 and changes no
\* affiliate.
C5_SeventyPlusBonus ==
    [][ \A c \in {UnknownCode} \union DOMAIN data.affiliates :
          Accrued(ret', c) =>
            IF Has(data.affiliates, c)
            THEN LET before == data.affiliates[c]
                     after == data'.affiliates[c]
                     bonus == IF ~Awarded(before) /\ Awarded(after)
                              THEN 500 * 1000 ELSE 0
                 IN  /\ ret'.commission = (ret'.amount * 70) \div 100
                     /\ after.commission = before.commission + ret'.commission + bonus
                     /\ after.bonuses = before.bonuses + bonus
            ELSE /\ ret'.commission = 0
                 /\ data'.affiliates = data.affiliates
      ]_vars

C5_Witness ==
    /\ Accrued(ret, CodeA)
    /\ ret.payment_id = P(2)
    /\ ret.commission = Mills(70)
    /\ data.affiliates[CodeA].commission = Mills(140)
    /\ data.affiliates[CodeA].bonuses = 0

\* The referred users of an affiliate who have a completed Cinematic or
\* Lifetime payment, each counted once.
DistinctSpecial(d, aff) ==
    Cardinality({ i \in 1 .. Len(aff.referred) :
                    \E k \in DOMAIN d.payments :
                        /\ d.payments[k].email = aff.referred[i]
                        /\ d.payments[k].status = "completed"
                        /\ d.payments[k].metadata.plan \in {"Cinematic", "Lifetime"} })

\* C6: in every reachable state, an affiliate with at least 100 distinct
\* referred users who each have a completed Cinematic or Lifetime payment
\* has the milestone flag set and a bonus total of 500, whatever referral
\* code the payments were confirmed with.
C6_MilestoneAlways ==
    \A c \in DOMAIN data.affiliates :
        DistinctSpecial(data, data.affiliates[c]) >= 100 =>
            /\ Awarded(data.affiliates[c])
            /\ data.affiliates[c].bonuses = 500 * 1000

\* C7: an affiliate's bonus total is 0 or 500; once the milestone flag is
\* set it stays set, the bonus total no longer changes, and a further
\* accrual adds only the 70% commission.
C7_BonusOnce ==
    [][ /\ \A c \in DOMAIN data'.affiliates :
              data'.affiliates[c].bonuses \in {0, 500 * 1000}
        /\ \A c \in DOMAIN data.affiliates :
              Awarded(data.affiliates[c]) =>
                /\ Has(data'.affiliates, c)
                /\ Awarded(data'.affiliates[c])
                /\ data'.affiliates[c].bonuses = data.affiliates[c].bonuses
                /\ Accrued(ret', c) =>
                     data'.affiliates[c].commission =
                       data.affiliates[c].commission + (ret'.amount * 70) \div 100
      ]_vars

C7_Witness ==
    /\ Accrued(ret, CodeA)
    /\ ret.payment_id = P(101)
    /\ Awarded(data.affiliates[CodeA])
    /\ data.affiliates[CodeA].bonuses = 500 * 1000
    /\ special_sales(data, data.affiliates[CodeA]) = 101

----------------------------------------------------------------------------
(* Claims about signup and the affiliate account it provisions             *)

\* C11: a successful signup returns a referral code that names a fresh
\* affiliate account (one that did not exist before the call), owned by
\* the new user's email and with a balance of zero; so no two users are
\* returned the same code.
C11_FreshAffiliate ==
    [][ (ret'.op = "signup" /\ ret'.status = 200) =>
          /\ ret'.code # None
          /\ ~Has(data.affiliates, ret'.code[1])
          /\ Has(data'.affiliates, ret'.code[1])
          /\ data'.affiliates[ret'.code[1]].email = ret'.email
          /\ data'.affiliates[ret'.code[1]].commission = 0
      ]_vars

----------------------------------------------------------------------------
(* Claims about payment confirmation                                       *)

\* C12: a payment confirmation for a plan outside the catalogue is
\* rejected and changes nothing: users, payments and affiliates are as
\* they were before the call, on every payment path.
C12_UnknownPlanAtomic ==
    [][ (IsConfirmation(ret') /\ ret'.plan \notin PlanNames) =>
          /\ ret'.status # 200
          /\ data'.users = data.users
          /\ data'.payments = data.payments
          /\ data'.affiliates = data.affiliates
      ]_vars

\* The ref_code argument of the confirmation r (the webhooks take none).
ExplicitRef(r) == Get(r, "ref_code", None)

\* C16: a successful confirmation invokes accrual for the explicit
\* referral code when one is given, else for the payer's stored ref, else
\* not at all; the balance of every affiliate other than the one accrual
\* was invoked for is unchanged, that of the stored ref included.
C16_ExplicitRefFirst ==
    [][ (IsConfirmation(ret') /\ ret'.status = 200) =>
          LET explicit == ExplicitRef(ret')
              stored == StoredRef(data, ret'.email)
              target == IF explicit # None THEN explicit ELSE stored
          IN  /\ ret'.credited = target
              /\ \A c \in DOMAIN data.affiliates :
                    (target = None \/ c # target[1]) =>
                        /\ Has(data'.affiliates, c)
                        /\ data'.affiliates[c].commission = data.affiliates[c].commission
              /\ \A c \in DOMAIN data.affiliates :
                    (target # None /\ c = target[1]) =>
                        data'.affiliates[c].commission >=
                            data.affiliates[c].commission + (ret'.amount * 70) \div 100
      ]_vars

C16_Witness ==
    /\ IsConfirmation(ret) /\ ret.status = 200
    /\ ExplicitRef(ret) = Some(CodeU1)
    /\ Has(data.users, "b@k.io")
    /\ StoredRef(data, "b@k.io") = Some(CodeA)
    /\ Has(data.affiliates, CodeA) /\ data.affiliates[CodeA].commission = 0
    /\ Has(data.affiliates, CodeU1) /\ data.affiliates[CodeU1].commission = Mills(70)

----------------------------------------------------------------------------
(* Claims about user records and videos                                    *)

\* C13: in every reachable state every user record has a plan field, and
\* its value is one of Free, Pro, Diamond, Cinematic, Lifetime.
C13_PlanInCatalogue ==
    \A e \in DOMAIN data.users :
        /\ Has(data.users[e], "plan")
        /\ data.users[e].plan \in {"Free", "Pro", "Diamond", "Cinematic", "Lifetime"}

\* The request, of a known user, passes the length and ratio checks.
PassesLengthAndRatio(req, plan) ==
    /\ \/ req.requested_seconds = None
       \/ plan = "Lifetime"
       \/ req.requested_seconds[1] <= MaxClipLength(plan)
    /\ req.aspect_ratio \in {"16:9", "9:16", "1:1"}

WantsPremium(req) == req.template_id # None \/ req.music_id # None

\* A generation request with the fame booster by a known user who has not
\* paid for it.
UnpaidFame(req, g) ==
    g.found /\ req.fame_booster /\ ~Get(g.user, "fame_booster_paid", FALSE)

OneMoreVideo(before, after) ==
    /\ Get(after, "generated_videos", 0) = Get(before, "generated_videos", 0) + 1
    /\ \A k \in DOMAIN before \ {"generated_videos"} :
          Has(after, k) /\ after[k] = before[k]

\* C18: a generation request answered with an error changes no user,
\* video, payment or affiliate; a successful one adds exactly one video,
\* owned by the requester, raises that user's generated_videos by one and
\* changes nothing else; no other answer adds a video.
C18_GenerateFrame ==
    [][ ret'.op = "generate_video" =>
          LET email == ret'.req.user_email
          IN  /\ data'.payments = data.payments
              /\ data'.affiliates = data.affiliates
              /\ IF ret'.detail = "Video generated"
                 THEN /\ ret'.status = 200
                      /\ Cardinality(NewVideos) = 1
                      /\ \A v \in NewVideos : data'.videos[v].email = email
                      /\ \A v \in DOMAIN data.videos :
                            Has(data'.videos, v) /\ data'.videos[v] = data.videos[v]
                      /\ DOMAIN data'.users = DOMAIN data.users \cup {email}
                      /\ \A e \in DOMAIN data.users \ {email} :
                            data'.users[e] = data.users[e]
                      /\ OneMoreVideo(Get(data.users, email, EmptyDict),
                                      data'.users[email])
                 ELSE /\ data'.videos = data.videos
                      /\ data'.users = data.users
      ]_vars

C18_Witness ==
    /\ ret.op = "generate_video"
    /\ ret.detail = "Video generated"
    /\ Has(data.users, "b@k.io")
    /\ Get(data.users["b@k.io"], "generated_videos", 0) = 2
    /\ Cardinality(OwnedVideos(data, "b@k.io")) = 2

\* C20: every user's generated_videos counter is the number of videos the
\* user owns and every video is owned by a user; a video appears only with
\* a successful generation request and, once stored, is never changed or
\* removed.
C20_CounterIsVideoCount ==
    [][ /\ \A e \in DOMAIN data'.users :
              Get(data'.users[e], "generated_videos", 0) =
                  Cardinality(OwnedVideos(data', e))
        /\ \A v \in DOMAIN data'.videos : Has(data'.users, data'.videos[v].email)
        /\ \A v \in DOMAIN data.videos :
              Has(data'.videos, v) /\ data'.videos[v] = data.videos[v]
        /\ NewVideos # {} =>
              /\ ret'.op = "generate_video"
              /\ ret'.detail = "Video generated"
              /\ Cardinality(NewVideos) = 1
      ]_vars

C20_Witness ==
    /\ ret.op = "download"
    /\ Has(data.users, "a@k.io") /\ Has(data.users, "b@k.io")
    /\ Cardinality(OwnedVideos(data, "a@k.io")) = 1
    /\ Cardinality(OwnedVideos(data, "b@k.io")) = 1
    /\ data.users["a@k.io"].generated_videos = 1
    /\ data.users["b@k.io"].generated_videos = 1

----------------------------------------------------------------------------
(* Claims about persistence                                                *)

Collections(d) ==
    [users |-> d.users, affiliates |-> d.affiliates,
     payments |-> d.payments, videos |-> d.videos]

\* C17: after every request the file holds the in-memory state, and
\* loading it gives back the users, affiliates, payments and videos
\* exactly as they are in memory.
C17_RoundTrip ==
    Collections(json_load(file)) = Collections(data)

----------------------------------------------------------------------------
(* Claims about concurrent requests                                        *)

----------------------------------------------------------------------------
(* Claims about the ledger as a whole                                      *)

\* The sum of the amounts of the payout records of an affiliate account.
PaidOut(aff) ==
    LET s == aff.payouts
        Sum[i \in 0 .. Len(s)] == IF i = 0 THEN 0 ELSE Sum[i - 1] + s[i].amount
    IN  Sum[Len(s)]

\* What the account of code c has been credited in sales commission, as
\* its fields tell it: the balance, less the bonus total, plus the payouts.
LedgerNet(d, c) ==
    IF Has(d.affiliates, c)
    THEN LET aff == d.affiliates[c]
         IN  aff.commission - aff.bonuses + PaidOut(aff)
    ELSE 0

\* C21: every affiliate account's balance is the sum of the commissions
\* credited to it, plus its bonus total, minus the sum of its payouts.  An
\* account starts with all three at nothing, so this is: each step changes
\* (balance - bonuses + payouts) by the commission the step credits to the
\* account, and by nothing when it credits none.
C21_LedgerConservation ==
    [][ \A c \in DOMAIN data'.affiliates :
          LedgerNet(data', c) - LedgerNet(data, c) =
              IF Accrued(ret', c) /\ data' # data THEN ret'.commission ELSE 0
      ]_vars

----------------------------------------------------------------------------
(* Claims about the fame booster                                           *)

FamePaid(u) == Get(u, "fame_booster_paid", FALSE)

====
